---- MODULE Spec2Model ----
(***************************************************************************)
(* CityNext: the /appointments handler (Server.createAppointment) and the  *)
(* appointments table behind it.  Several handlers run concurrently; they  *)
(* interleave at their two database statements (the SELECT COUNT of        *)
(* appointmentExists and the INSERT ... RETURNING).                        *)
(*                                                                         *)
(* Strings whose content is inspected (yearStr, visitDate, the keys of     *)
(* publicHolidays) are sequences of one-character strings, so that         *)
(* strconv.Atoi, time.Parse and Time.Format are computed character by      *)
(* character.  Names are only ever compared with "" and copied.            *)
(* created_at is not modelled: nothing in the handler reads it.            *)
(***************************************************************************)
EXTENDS Integers, Sequences, FiniteSets, TLC

\* Number of requests served concurrently.
NumHandlers == 2

Handlers == 1..NumHandlers

----------------------------------------------------------------------------
\* Characters and numbers

Digits == {"0", "1", "2", "3", "4", "5", "6", "7", "8", "9"}

DigitVal(c) ==
    CASE c = "0" -> 0 [] c = "1" -> 1 [] c = "2" -> 2 [] c = "3" -> 3
      [] c = "4" -> 4 [] c = "5" -> 5 [] c = "6" -> 6 [] c = "7" -> 7
      [] c = "8" -> 8 [] c = "9" -> 9

DigitChar(n) ==
    CASE n = 0 -> "0" [] n = 1 -> "1" [] n = 2 -> "2" [] n = 3 -> "3"
      [] n = 4 -> "4" [] n = 5 -> "5" [] n = 6 -> "6" [] n = 7 -> "7"
      [] n = 8 -> "8" [] n = 9 -> "9"

AllDigits(s) == \A i \in 1..Len(s) : s[i] \in Digits

RECURSIVE DecimalValue(_)
DecimalValue(s) ==
    IF s = <<>> THEN 0
    ELSE 10 * DecimalValue(SubSeq(s, 1, Len(s) - 1)) + DigitVal(s[Len(s)])

\* strconv.Atoi: an optional sign followed by at least one decimal digit.
Atoi(s) ==
    LET signed == Len(s) > 0 /\ s[1] \in {"+", "-"}
        digits == IF signed THEN Tail(s) ELSE s
    IN  IF digits = <<>> \/ ~AllDigits(digits)
        THEN [err |-> TRUE, val |-> 0]
        ELSE [err |-> FALSE,
              val |-> IF signed /\ s[1] = "-" THEN 0 - DecimalValue(digits)
                      ELSE DecimalValue(digits)]

----------------------------------------------------------------------------
\* Calendar (package time).  All times of the program are midnight UTC, so
\* an instant is its year, month and day.

IsLeap(y) == y % 4 = 0 /\ (y % 100 # 0 \/ y % 400 = 0)

DaysIn(m, y) ==
    IF m = 2 THEN (IF IsLeap(y) THEN 29 ELSE 28)
    ELSE IF m \in {4, 6, 9, 11} THEN 30 ELSE 31

MkDate(y, m, d) == [year |-> y, month |-> m, day |-> d]

\* The zero value of a local time.Time not assigned yet.
ZeroTime == MkDate(0, 0, 0)

\* time.Date(year, month, day, 0, 0, 0, 0, time.UTC) for the month and day
\* of a real date: a day past the end of the month rolls into the next one.
TimeDate(y, m, d) ==
    IF d <= DaysIn(m, y) THEN MkDate(y, m, d)
    ELSE IF m < 12 THEN MkDate(y, m + 1, d - DaysIn(m, y))
    ELSE MkDate(y + 1, 1, d - DaysIn(m, y))

\* Time.Before
Before(t, u) ==
    \/ t.year < u.year
    \/ t.year = u.year /\ t.month < u.month
    \/ t.year = u.year /\ t.month = u.month /\ t.day < u.day

\* A parse that takes any two digits as a month and as a day.
Parse_NoRangeCheck(s) ==
    IF /\ Len(s) = 10
       /\ AllDigits(SubSeq(s, 1, 4))
       /\ s[5] = "-"
       /\ AllDigits(SubSeq(s, 6, 7))
       /\ s[8] = "-"
       /\ AllDigits(SubSeq(s, 9, 10))
    THEN [err |-> FALSE,
          time |-> MkDate(DecimalValue(SubSeq(s, 1, 4)),
                          DecimalValue(SubSeq(s, 6, 7)),
                          DecimalValue(SubSeq(s, 9, 10)))]
    ELSE [err |-> TRUE, time |-> ZeroTime]

\* time.Parse("2006-01-02", s): four digits, "-", two digits, "-", two
\* digits, nothing after; month in 1..12 and day within the month.
Parse(s) ==
    LET shaped == /\ Len(s) = 10
                  /\ AllDigits(SubSeq(s, 1, 4))
                  /\ s[5] = "-"
                  /\ AllDigits(SubSeq(s, 6, 7))
                  /\ s[8] = "-"
                  /\ AllDigits(SubSeq(s, 9, 10))
        y == DecimalValue(SubSeq(s, 1, 4))
        m == DecimalValue(SubSeq(s, 6, 7))
        d == DecimalValue(SubSeq(s, 9, 10))
    IN  IF shaped /\ m >= 1 /\ m <= 12 /\ d >= 1 /\ d <= DaysIn(m, y)
        THEN [err |-> FALSE, time |-> MkDate(y, m, d)]
        ELSE [err |-> TRUE, time |-> ZeroTime]

Pad2(n) == <<DigitChar(n \div 10), DigitChar(n % 10)>>

Pad4(n) == <<DigitChar(n \div 1000), DigitChar((n \div 100) % 10),
             DigitChar((n \div 10) % 10), DigitChar(n % 10)>>

\* Time.Format("2006-01-02") for a year in 0..9999.
Format(t) == Pad4(t.year) \o <<"-">> \o Pad2(t.month) \o <<"-">> \o Pad2(t.day)

----------------------------------------------------------------------------
\* Inputs

\* "2075", "" (the value NewServer leaves) and a year that is no integer.
YearStrs ==
    { <<"2", "0", "7", "5">>, <<>>, <<"2", "0", "7", "x">> }

\* A nil *time.Time.
Nil == [nil |-> TRUE]

\* Values of todayOverride: nil, the test's 2075-01-01, and dates of the
\* year before and the year after the configured one.
TodayOverrides ==
    { Nil, MkDate(2075, 1, 1), MkDate(2074, 6, 1), MkDate(2076, 3, 1) }

\* Month and day of time.Now().UTC() when a request arrives.
ClockDates == { [month |-> 6, day |-> 15], [month |-> 2, day |-> 29] }

\* Holiday maps: the empty map of NewServer, and two of the test's dates.
HolidaySets ==
    { {},
      { <<"2", "0", "7", "5", "-", "0", "1", "-", "0", "1">>,
        <<"2", "0", "7", "5", "-", "1", "2", "-", "2", "5">> } }

\* visitDate texts that are calendar dates ...
GoodDateTexts ==
    { <<"2", "0", "7", "5", "-", "0", "6", "-", "1", "5">>,
      <<"2", "0", "7", "5", "-", "0", "3", "-", "0", "1">>,
      <<"2", "0", "7", "5", "-", "1", "2", "-", "2", "5">>,
      <<"2", "0", "7", "5", "-", "0", "1", "-", "0", "1">>,
      <<"2", "0", "7", "4", "-", "0", "6", "-", "1", "5">>,
      <<"2", "0", "7", "6", "-", "0", "2", "-", "2", "9">> }

\* ... and texts that are not: another separator, a two-digit year, a month
\* and a day out of range, a partial date, a non-numeric component.
BadDateTexts ==
    { <<"2", "0", "7", "5", "/", "0", "6", "/", "1", "5">>,
      <<"7", "5", "-", "0", "6", "-", "1", "5">>,
      <<"2", "0", "7", "5", "-", "1", "3", "-", "0", "1">>,
      <<"2", "0", "7", "5", "-", "0", "2", "-", "2", "9">>,
      <<"2", "0", "7", "5", "-", "0", "6">>,
      <<"2", "0", "7", "5", "-", "0", "a", "-", "1", "5">> }

DateTexts == GoodDateTexts \union BadDateTexts \union { <<>> }

\* A request body: JSON that decodes into an AppointmentRequest (an absent
\* key decodes as the empty string), or text that is no JSON.
MkBody(first, last, date) ==
    [json |-> TRUE, firstName |-> first, lastName |-> last, visitDate |-> date]

NotJSON == [json |-> FALSE, firstName |-> "", lastName |-> "", visitDate |-> <<>>]

\* Every date text with both names given; each missing-name combination with
\* a good date, a bad date and no date.
Bodies ==
    { MkBody("Ann", "Lee", t) : t \in DateTexts }
    \union
    { MkBody(f, l, t) :
        f \in {"", "Ann"}, l \in {"", "Lee"},
        t \in { <<>>,
                <<"2", "0", "7", "5", "-", "0", "6", "-", "1", "5">>,
                <<"2", "0", "7", "5", "/", "0", "6", "/", "1", "5">> } }
    \union { NotJSON }

\* The requests served: a POST with each body, and a GET with a body that
\* would be accepted, one that would be rejected, and one that is no JSON.
Requests ==
    { [method |-> "POST", body |-> b] : b \in Bodies }
    \union
    { [method |-> "GET", body |-> b] :
        b \in { MkBody("Ann", "Lee",
                       <<"2", "0", "7", "5", "-", "0", "6", "-", "1", "5">>),
                MkBody("", "Lee", <<>>),
                NotJSON } }

----------------------------------------------------------------------------
\* State

VARIABLES
    yearStr,         \* Server.yearStr
    publicHolidays,  \* Server.publicHolidays: the keys mapped to true
    todayOverride,   \* Server.todayOverride
    appointments,    \* the rows of table appointments
    seq,             \* the AUTOINCREMENT counter of the table
    handler          \* one createAppointment invocation per handler

vars == <<yearStr, publicHolidays, todayOverride, appointments, seq, handler>>

\* type Appointment (without CreatedAt)
MkAppointment(id, first, last, date) ==
    [ID |-> id, FirstName |-> first, LastName |-> last, VisitDate |-> date]

ZeroAppointment == MkAppointment(0, "", "", <<>>)

\* type AppointmentRequest
ZeroRequest == [FirstName |-> "", LastName |-> "", VisitDate |-> <<>>]

\* Nothing written to the http.ResponseWriter.
NoResponse ==
    [written |-> FALSE, status |-> 0, error |-> "", appointment |-> ZeroAppointment]

\* sendErrorResponse
ErrorResponse(statusCode, errorType) ==
    [written |-> TRUE, status |-> statusCode, error |-> errorType,
     appointment |-> ZeroAppointment]

\* The 201 response: the Appointment scanned from the INSERT.
CreatedResponse(appointment) ==
    [written |-> TRUE, status |-> 201, error |-> "", appointment |-> appointment]

\* The locals of createAppointment before its first statement.  checked
\* lists the validation checks evaluated so far; err is the error of the
\* database statement run last ("" for nil).
IdleHandler ==
    [pc |-> "idle", method |-> "", body |-> NotJSON, decoded |-> FALSE,
     req |-> ZeroRequest, today |-> ZeroTime, visitDate |-> ZeroTime,
     checked |-> <<>>, exists |-> FALSE, err |-> "", resp |-> NoResponse]

\* The server with its fields as NewServer, loadPublicHolidays and the tests
\* set them.  With a year that is no integer the handler reads neither the
\* holidays nor the override: they are then left as NewServer sets them.
Init ==
    /\ yearStr \in YearStrs
    /\ publicHolidays \in HolidaySets
    /\ todayOverride \in TodayOverrides
    /\ Atoi(yearStr).err => publicHolidays = {} /\ todayOverride = Nil
    /\ appointments = {}
    /\ seq = 0
    /\ handler = [h \in Handlers |-> IdleHandler]

----------------------------------------------------------------------------
\* Server.createAppointment, up to its first database statement

\* return after sendErrorResponse
Reject(s, statusCode, errorType) ==
    [s EXCEPT !.pc = "done", !.resp = ErrorResponse(statusCode, errorType)]

\* json.NewDecoder(r.Body).Decode(&req)
Decode(body) ==
    IF body.json
    THEN [err |-> FALSE,
          req |-> [FirstName |-> body.firstName, LastName |-> body.lastName,
                   VisitDate |-> body.visitDate]]
    ELSE [err |-> TRUE, req |-> ZeroRequest]

\* Server.isPublicHoliday
isPublicHoliday(holidays, visitDate) == Format(visitDate) \in holidays

\* The presence check without its lastName disjunct.
MissingFields_NoLastName(req) == req.FirstName = "" \/ req.VisitDate = <<>>

\* req.FirstName == "" || req.LastName == "" || req.VisitDate == ""
MissingFields(req) ==
    req.FirstName = "" \/ req.LastName = "" \/ req.VisitDate = <<>>

\* visitDate.Year() != today.Year()
WrongYear(visitDate, today) == visitDate.year # today.year

\* Validate with the return after the public_holiday response left out: the
\* handler goes on to the duplicate check.
Validate_HolidayNoReturn(s, holidays) ==
    LET req    == s.req
        parsed == Parse(req.VisitDate)
        c1     == [s EXCEPT !.checked = <<"fields">>]
        c2     == [c1 EXCEPT !.checked = Append(c1.checked, "parse")]
        c3     == [c2 EXCEPT !.checked = Append(c2.checked, "year"),
                             !.visitDate = parsed.time]
        c4     == [c3 EXCEPT !.checked = Append(c3.checked, "past")]
        c5     == [c4 EXCEPT !.checked = Append(c4.checked, "holiday")]
    IN  IF MissingFields(req)
        THEN Reject(c1, 400, "missing_fields")
        ELSE IF parsed.err
        THEN Reject(c2, 400, "invalid_date")
        ELSE IF WrongYear(parsed.time, s.today)
        THEN Reject(c3, 400, "invalid_year")
        ELSE IF Before(parsed.time, s.today)
        THEN Reject(c4, 400, "past_date")
        ELSE IF isPublicHoliday(holidays, parsed.time)
        THEN [Reject(c5, 400, "public_holiday") EXCEPT !.pc = "lookup"]
        ELSE [c5 EXCEPT !.pc = "lookup"]

\* Validate with the holiday check placed before the past-date check.
Validate_HolidayBeforePast(s, holidays) ==
    LET req    == s.req
        parsed == Parse(req.VisitDate)
        c1     == [s EXCEPT !.checked = <<"fields">>]
        c2     == [c1 EXCEPT !.checked = Append(c1.checked, "parse")]
        c3     == [c2 EXCEPT !.checked = Append(c2.checked, "year"),
                             !.visitDate = parsed.time]
        c4     == [c3 EXCEPT !.checked = Append(c3.checked, "holiday")]
        c5     == [c4 EXCEPT !.checked = Append(c4.checked, "past")]
    IN  IF MissingFields(req)
        THEN Reject(c1, 400, "missing_fields")
        ELSE IF parsed.err
        THEN Reject(c2, 400, "invalid_date")
        ELSE IF WrongYear(parsed.time, s.today)
        THEN Reject(c3, 400, "invalid_year")
        ELSE IF isPublicHoliday(holidays, parsed.time)
        THEN Reject(c4, 400, "public_holiday")
        ELSE IF Before(parsed.time, s.today)
        THEN Reject(c5, 400, "past_date")
        ELSE [c5 EXCEPT !.pc = "lookup"]

\* The checks on the decoded request s.req, in the order of the code; the
\* handler goes on to the duplicate check when all of them pass.
Validate(s, holidays) ==
    LET req    == s.req
        parsed == Parse(req.VisitDate)
        c1     == [s EXCEPT !.checked = <<"fields">>]
        c2     == [c1 EXCEPT !.checked = Append(c1.checked, "parse")]
        c3     == [c2 EXCEPT !.checked = Append(c2.checked, "year"),
                             !.visitDate = parsed.time]
        c4     == [c3 EXCEPT !.checked = Append(c3.checked, "past")]
        c5     == [c4 EXCEPT !.checked = Append(c4.checked, "holiday")]
    IN  IF MissingFields(req)
        THEN Reject(c1, 400, "missing_fields")
        ELSE IF parsed.err
        THEN Reject(c2, 400, "invalid_date")
        ELSE IF WrongYear(parsed.time, s.today)
        THEN Reject(c3, 400, "invalid_year")
        ELSE IF Before(parsed.time, s.today)
        THEN Reject(c4, 400, "past_date")
        ELSE IF isPublicHoliday(holidays, parsed.time)
        THEN Reject(c5, 400, "public_holiday")
        ELSE [c5 EXCEPT !.pc = "lookup"]

\* The fake "today" of the handler.
Today(year, override, now) ==
    IF override # Nil THEN override ELSE TimeDate(year, now.month, now.day)

\* createAppointment from its entry to the return of a rejection or to the
\* call of appointmentExists.
Handle(method, body, now, ys, override, holidays) ==
    LET year == Atoi(ys)
        s0   == [IdleHandler EXCEPT !.method = method, !.body = body]
        s1   == [s0 EXCEPT !.today = Today(year.val, override, now)]
        dec  == Decode(body)
        s2   == [s1 EXCEPT !.decoded = TRUE, !.req = dec.req]
    IN  IF year.err
        THEN [s0 EXCEPT !.pc = "done"]
        ELSE IF method # "POST"
        THEN Reject(s1, 405, "method_not_allowed")
        ELSE IF dec.err
        THEN Reject(s1, 400, "invalid_json")
        ELSE Validate(s2, holidays)

\* A holiday check that records the date it looked up in the map.
HolidaysAfterCheck_AddsKey(holidays, visitDate) ==
    holidays \union {Format(visitDate)}

\* Server.publicHolidays after isPublicHoliday indexed it: reading a map
\* adds no key.
HolidaysAfterCheck(holidays, visitDate) == holidays

Serve(h) ==
    /\ handler[h].pc = "idle"
    /\ \E r \in Requests, now \in ClockDates :
         LET s == Handle(r.method, r.body, now, yearStr, todayOverride,
                         publicHolidays)
         IN  /\ handler' = [handler EXCEPT ![h] = s]
             /\ publicHolidays' =
                    IF Len(s.checked) >= 5
                    THEN HolidaysAfterCheck(publicHolidays, s.visitDate)
                    ELSE publicHolidays
    /\ UNCHANGED <<yearStr, todayOverride, appointments, seq>>

----------------------------------------------------------------------------
\* The database statements and the code after each

\* A query whose WHERE clause matches no row.
CountRows_NeverMatches(rows, visit_date) == 0

\* SELECT COUNT(*) FROM appointments WHERE visit_date = ?
CountRows(rows, visit_date) ==
    Cardinality({ row \in rows : row.VisitDate = visit_date })

\* appointmentExists returning count > 1.
appointmentExists_MoreThanOne(rows, visitDate) ==
    CountRows(rows, Format(visitDate)) > 1

\* Server.appointmentExists when the query succeeds
appointmentExists(rows, visitDate) == CountRows(rows, Format(visitDate)) > 0

\* The handler without its check of the error of appointmentExists.
AfterExists_IgnoresError(s, exists, err) ==
    LET s1 == [s EXCEPT !.checked = Append(s.checked, "duplicate"),
                        !.exists = exists, !.err = err]
    IN  IF exists
        THEN Reject(s1, 409, "duplicate_appointment")
        ELSE [s1 EXCEPT !.pc = "insert"]

\* createAppointment after appointmentExists returned (exists, err)
AfterExists(s, exists, err) ==
    LET s1 == [s EXCEPT !.checked = Append(s.checked, "duplicate"),
                        !.exists = exists, !.err = err]
    IN  IF err # ""
        THEN Reject(s1, 500, "database_error")
        ELSE IF exists
        THEN Reject(s1, 409, "duplicate_appointment")
        ELSE [s1 EXCEPT !.pc = "insert"]

\* appointmentExists: the query returns a count.
LookupOK(h) ==
    /\ handler[h].pc = "lookup"
    /\ handler' = [handler EXCEPT ![h] =
           AfterExists(handler[h],
                       appointmentExists(appointments, handler[h].visitDate), "")]
    /\ UNCHANGED <<yearStr, publicHolidays, todayOverride, appointments, seq>>

\* appointmentExists: the query fails; it returns (false, err).
LookupFail(h) ==
    /\ handler[h].pc = "lookup"
    /\ handler' = [handler EXCEPT ![h] = AfterExists(handler[h], FALSE, "query")]
    /\ UNCHANGED <<yearStr, publicHolidays, todayOverride, appointments, seq>>

\* The table declared without UNIQUE on visit_date.
UniqueViolation_NoConstraint(rows, visit_date) == FALSE

\* visit_date TEXT NOT NULL UNIQUE: the row would be a second one of its date.
UniqueViolation(rows, visit_date) ==
    \E row \in rows : row.VisitDate = visit_date

\* A counter that hands out its current value again.
NextID_NotAdvanced(counter) == counter

\* id INTEGER PRIMARY KEY AUTOINCREMENT
NextID(counter) == counter + 1

\* The INSERT with its two name arguments in the other order.
InsertedRow_NamesSwapped(s, counter) ==
    MkAppointment(NextID(counter), s.req.LastName, s.req.FirstName,
                  Format(s.visitDate))

\* The row INSERT ... VALUES (?, ?, ?) RETURNING ... makes of the handler's
\* arguments req.FirstName, req.LastName, visitDate.Format("2006-01-02").
InsertedRow(s, counter) ==
    MkAppointment(NextID(counter), s.req.FirstName, s.req.LastName,
                  Format(s.visitDate))

\* The handler without its check of the error of the INSERT.
AfterInsert_IgnoresError(s, appointment, err) ==
    [s EXCEPT !.err = err, !.pc = "done",
              !.resp = CreatedResponse(appointment)]

\* createAppointment after the INSERT returned (appointment, err)
AfterInsert(s, appointment, err) ==
    LET s1 == [s EXCEPT !.err = err]
    IN  IF err # ""
        THEN Reject(s1, 500, "database_error")
        ELSE [s1 EXCEPT !.pc = "done", !.resp = CreatedResponse(appointment)]

\* An INSERT that leaves its row as the only one of the table.
InsertRow_Overwrites(rows, row) == {row}

\* INSERT INTO appointments: the table with the new row added.
InsertRow(rows, row) == rows \union {row}

\* The INSERT commits its row.
InsertOK(h) ==
    LET row == InsertedRow(handler[h], seq)
    IN  /\ handler[h].pc = "insert"
        /\ ~UniqueViolation(appointments, row.VisitDate)
        /\ appointments' = InsertRow(appointments, row)
        /\ seq' = row.ID
        /\ handler' = [handler EXCEPT ![h] = AfterInsert(handler[h], row, "")]
        /\ UNCHANGED <<yearStr, publicHolidays, todayOverride>>

\* The INSERT is refused by the UNIQUE constraint on visit_date.
InsertConflict(h) ==
    /\ handler[h].pc = "insert"
    /\ UniqueViolation(appointments, Format(handler[h].visitDate))
    /\ handler' = [handler EXCEPT ![h] =
           AfterInsert(handler[h], ZeroAppointment, "unique")]
    /\ UNCHANGED <<yearStr, publicHolidays, todayOverride, appointments, seq>>

\* The INSERT fails for another reason (the database is locked, I/O).
InsertFail(h) ==
    /\ handler[h].pc = "insert"
    /\ handler' = [handler EXCEPT ![h] =
           AfterInsert(handler[h], ZeroAppointment, "io")]
    /\ UNCHANGED <<yearStr, publicHolidays, todayOverride, appointments, seq>>

Next ==
    \E h \in Handlers :
        \/ Serve(h)
        \/ LookupOK(h)
        \/ LookupFail(h)
        \/ InsertOK(h)
        \/ InsertConflict(h)
        \/ InsertFail(h)

Spec == Init /\ [][Next]_vars

----------------------------------------------------------------------------
\* Vocabulary of the properties

\* The calendar of the years the inputs speak of, and the text of each of
\* its days.
CalendarYears == {2074, 2075, 2076}

\* Thirty days have September, April, June and November; February has 28,
\* and 29 in 2076.
CalendarDates ==
    { dt \in { MkDate(y, m, d) : y \in CalendarYears, m \in 1..12, d \in 1..31 } :
        /\ dt.month \in {4, 6, 9, 11} => dt.day <= 30
        /\ dt.month = 2 => dt.day <= 29
        /\ dt.month = 2 /\ dt.year # 2076 => dt.day <= 28 }

CalendarTexts == { Format(d) : d \in CalendarDates }

\* The day a date text of the inputs names.
DateOfText ==
    [t \in DateTexts \intersect CalendarTexts |->
        CHOOSE d \in CalendarDates : Format(d) = t]

Done(h) == handler[h].pc = "done"

\* The invocation s has returned, having written this status and error code.
AnsweredIn(s, statusCode, errorType) ==
    /\ s.pc = "done"
    /\ s.resp.written
    /\ s.resp.status = statusCode
    /\ s.resp.error = errorType

Answered(h, statusCode, errorType) == AnsweredIn(handler[h], statusCode, errorType)

\* The handler's INSERT was refused by the UNIQUE constraint.
LostInsertRace(h) == Done(h) /\ handler[h].err = "unique"

----------------------------------------------------------------------------
\* C1: in every reachable state the table holds at most one row per
\* visitDate, whatever the interleaving of the requests.
C1_OneAppointmentPerDate ==
    \A a, b \in appointments : a.VisitDate = b.VisitDate => a = b

\* Two requests for one date both passed the pre-check, both ran their INSERT,
\* and the table holds the row of one of them.
C1_Witness ==
    \E g, h \in Handlers :
        /\ g # h
        /\ handler[g].req.VisitDate = handler[h].req.VisitDate
        /\ Answered(g, 201, "")
        /\ LostInsertRace(h)
        /\ ~handler[h].exists
        /\ Cardinality(appointments) = 1

\* C2: a request that passed the existence pre-check and whose INSERT is
\* refused by the UNIQUE constraint is answered 409 duplicate_appointment.
C2_RaceLoserGetsConflict ==
    \A h \in Handlers :
        LostInsertRace(h) => Answered(h, 409, "duplicate_appointment")

----------------------------------------------------------------------------
\* The six rules, stated on the request as it was sent

CheckOrder == <<"fields", "parse", "year", "past", "holiday", "duplicate">>

ReasonCode ==
    <<"missing_fields", "invalid_date", "invalid_year", "past_date",
      "public_holiday", "duplicate_appointment">>

\* Days in calendar order.
Ordinal(d) == d.year * 10000 + d.month * 100 + d.day

SomeFieldEmpty(b) == b.firstName = "" \/ b.lastName = "" \/ b.visitDate = <<>>

IsCalendarText(t) == t \in CalendarTexts

\* Rule k of the handler is broken by the request of handler h; the year and
\* past-date rules are the handler's own, against its reference today.
RuleBroken(h, k) ==
    LET b == handler[h].body
        t == b.visitDate
    IN  CASE k = 1 -> SomeFieldEmpty(b)
          [] k = 2 -> ~IsCalendarText(t)
          [] k = 3 -> IsCalendarText(t) /\ DateOfText[t].year # handler[h].today.year
          [] k = 4 -> IsCalendarText(t)
                      /\ Ordinal(DateOfText[t]) < Ordinal(handler[h].today)
          [] k = 5 -> t \in publicHolidays

BrokenRules(h) == { k \in 1..5 : RuleBroken(h, k) }

Least(S) == CHOOSE k \in S : \A j \in S : k <= j

IsPrefix(p, q) == Len(p) <= Len(q) /\ p = SubSeq(q, 1, Len(p))

\* C3: for every decoded POST request the checks run in the order fields,
\* parse, year, past, holiday, duplicate; the answer carries the reason code
\* of the first broken rule, and no check after it is evaluated.
C3_FirstFailingCheckDecides ==
    \A h \in Handlers :
        handler[h].decoded =>
            /\ handler[h].checked # <<>>
            /\ IsPrefix(handler[h].checked, CheckOrder)
            /\ BrokenRules(h) # {} =>
                 /\ Answered(h, 400, ReasonCode[Least(BrokenRules(h))])
                 /\ Len(handler[h].checked) = Least(BrokenRules(h))
            /\ BrokenRules(h) = {} =>
                 /\ Len(handler[h].checked) >= 5
                 /\ handler[h].resp.written =>
                      /\ Len(handler[h].checked) = 6
                      /\ handler[h].resp.status \in {201, 409, 500}
                 /\ handler[h].resp.error = "duplicate_appointment" =>
                      handler[h].exists

\* A request that breaks the past-date rule and the holiday rule at once was
\* answered past_date, and its holiday check was not evaluated.
C3_Witness ==
    \E h \in Handlers :
        /\ handler[h].decoded
        /\ Cardinality(BrokenRules(h)) >= 2
        /\ 4 \in BrokenRules(h)
        /\ 5 \in BrokenRules(h)
        /\ Answered(h, 400, "past_date")
        /\ handler[h].checked = <<"fields", "parse", "year", "past">>

----------------------------------------------------------------------------
\* Requests that get as far as the duplicate check

\* The request of handler h was decoded and breaks none of rules 1 to 5.
PassedChecks(h) == handler[h].decoded /\ BrokenRules(h) = {}

\* The table holds a row for the date text t.
DatePresent(rows, t) == \E row \in rows : row.VisitDate = t

\* Handler h takes the step that runs appointmentExists.
RunsLookup(h) == handler[h].pc = "lookup" /\ handler'[h].pc # "lookup"

\* Handler h takes the step that runs the INSERT.
RunsInsert(h) == handler[h].pc = "insert" /\ handler'[h].pc # "insert"

\* C4 as claimed: a request that passed checks 1-5 and whose date is in the
\* table when the existence check runs is answered 409 duplicate_appointment.
C4_PresentDateGetsConflict ==
    [][\A h \in Handlers :
          /\ RunsLookup(h)
          /\ PassedChecks(h)
          /\ DatePresent(appointments, handler[h].body.visitDate)
          => AnsweredIn(handler'[h], 409, "duplicate_appointment")]_vars

\* C4, amended: such a request is answered 409 duplicate_appointment when the
\* existence query succeeds, and 500 database_error when the query fails.
C4_PresentDateGetsConflictUnlessQueryFails ==
    [][\A h \in Handlers :
          /\ RunsLookup(h)
          /\ PassedChecks(h)
          /\ DatePresent(appointments, handler[h].body.visitDate)
          => IF handler'[h].err = ""
             THEN AnsweredIn(handler'[h], 409, "duplicate_appointment")
             ELSE AnsweredIn(handler'[h], 500, "database_error")]_vars

\* A request answered 201 was repeated word for word and answered 409.
C4_Witness ==
    \E g, h \in Handlers :
        /\ g # h
        /\ handler[g].body = handler[h].body
        /\ Answered(g, 201, "")
        /\ Answered(h, 409, "duplicate_appointment")
        /\ handler[h].err = ""

\* No row of another request holds the date of handler h's request.
NoOtherBooking(h) ==
    \A row \in appointments :
        row.VisitDate = handler[h].body.visitDate
            => row = handler[h].resp.appointment

\* The appointment a is the booking the body b asks for.
BookingOf(a, b) ==
    /\ a.FirstName = b.firstName
    /\ a.LastName = b.lastName
    /\ a.VisitDate = b.visitDate

Committed(t) ==
    \E g \in Handlers :
        Answered(g, 201, "") /\ handler[g].resp.appointment.VisitDate = t

\* C6 as claimed: once a request for a date was answered 201, every later
\* existence check for the date returns true and its request is answered 409.
C6_CommittedDateAlwaysExists ==
    [][\A h \in Handlers :
          RunsLookup(h) /\ Committed(handler[h].body.visitDate) =>
              /\ handler'[h].exists
              /\ AnsweredIn(handler'[h], 409, "duplicate_appointment")]_vars

\* C6, amended: once a request for a date was answered 201 its row stays in
\* the table, and every later existence check for the date that does not
\* itself fail returns true and its request is answered 409; a check that
\* fails returns false with the error and is answered 500 database_error.
C6_CommittedDateExistsUnlessQueryFails ==
    [][/\ \A row \in appointments : row \in appointments'
       /\ \A h \in Handlers :
            /\ Committed(handler[h].body.visitDate) =>
                 DatePresent(appointments, handler[h].body.visitDate)
            /\ RunsLookup(h) /\ Committed(handler[h].body.visitDate) =>
                 IF handler'[h].err = ""
                 THEN /\ handler'[h].exists
                      /\ AnsweredIn(handler'[h], 409, "duplicate_appointment")
                 ELSE /\ ~handler'[h].exists
                      /\ AnsweredIn(handler'[h], 500, "database_error")]_vars

\* A request served after the 201 of another one for the same date found the
\* date taken.
C6_Witness ==
    \E g, h \in Handlers :
        /\ g # h
        /\ Answered(g, 201, "")
        /\ handler[g].resp.appointment \in appointments
        /\ handler[h].visitDate = handler[g].visitDate
        /\ handler[h].exists
        /\ handler[h].checked = CheckOrder
        /\ Answered(h, 409, "duplicate_appointment")

----------------------------------------------------------------------------
\* C7: every decoded request with an empty firstName, lastName or visitDate
\* is answered 400 missing_fields, whatever else it and the server hold.
C7_EmptyFieldIsMissingFields ==
    \A h \in Handlers :
        handler[h].decoded /\ SomeFieldEmpty(handler[h].body)
            => Answered(h, 400, "missing_fields")

\* A request with only its lastName empty and a date that is no date, on a
\* server with holidays loaded, was answered missing_fields.
C7_Witness ==
    \E h \in Handlers :
        /\ handler[h].body.firstName # ""
        /\ handler[h].body.lastName = ""
        /\ handler[h].body.visitDate \in BadDateTexts
        /\ publicHolidays # {}
        /\ Answered(h, 400, "missing_fields")

\* C8: every request with its three fields given whose visitDate is not the
\* YYYY-MM-DD text of a calendar day is answered 400 invalid_date.
C8_NotADateIsInvalidDate ==
    \A h \in Handlers :
        /\ handler[h].decoded
        /\ ~SomeFieldEmpty(handler[h].body)
        /\ ~IsCalendarText(handler[h].body.visitDate)
        => Answered(h, 400, "invalid_date")

\* 2075-13-01 and 2075-02-29 were both answered invalid_date.
C8_Witness ==
    \E g, h \in Handlers :
        /\ handler[g].body.visitDate =
              <<"2", "0", "7", "5", "-", "1", "3", "-", "0", "1">>
        /\ handler[h].body.visitDate =
              <<"2", "0", "7", "5", "-", "0", "2", "-", "2", "9">>
        /\ Answered(g, 400, "invalid_date")
        /\ Answered(h, 400, "invalid_date")

\* The request of handler h has its three fields and names a calendar day.
WellFormed(h) ==
    /\ handler[h].decoded
    /\ ~SomeFieldEmpty(handler[h].body)
    /\ IsCalendarText(handler[h].body.visitDate)

\* The day the request of handler h names.
RequestedDay(h) == DateOfText[handler[h].body.visitDate]

\* The operating year the server was started for.
ConfiguredYear == Atoi(yearStr).val

\* C9: a request with its fields given and a well-formed date is answered
\* 400 invalid_year exactly when the year of the date differs from the
\* configured year, whether today comes from the clock or from todayOverride.
C9_InvalidYearIffNotConfiguredYear ==
    \A h \in Handlers :
        WellFormed(h) =>
            (Answered(h, 400, "invalid_year")
                <=> RequestedDay(h).year # ConfiguredYear)

\* C10: a request with its fields given and a well-formed date of the
\* configured year is answered 400 past_date when the date is before the
\* reference today, and is not answered past_date when it is that very day.
C10_PastDateIffBeforeToday ==
    \A h \in Handlers :
        WellFormed(h) /\ RequestedDay(h).year = ConfiguredYear =>
            /\ Ordinal(RequestedDay(h)) < Ordinal(handler[h].today)
                 => Answered(h, 400, "past_date")
            /\ RequestedDay(h) = handler[h].today
                 => handler[h].resp.error # "past_date"

----------------------------------------------------------------------------
\* C11: a request with its fields given and a well-formed date of the
\* configured year, not before the reference today, that is in the holiday
\* set is answered 400 public_holiday without any store query or insert;
\* a holiday that is the reference today itself is included.
C11_HolidayIsPublicHoliday ==
    \A h \in Handlers :
        /\ WellFormed(h)
        /\ RequestedDay(h).year = ConfiguredYear
        /\ Ordinal(RequestedDay(h)) >= Ordinal(handler[h].today)
        /\ handler[h].body.visitDate \in publicHolidays
        => /\ Answered(h, 400, "public_holiday")
           /\ handler[h].checked = SubSeq(CheckOrder, 1, 5)
           /\ handler[h].err = ""

\* C12: when the existence query itself fails for a request that passed
\* checks 1-5, the answer is 500 database_error, never 409 and never 201,
\* and the request runs no INSERT: no row of the table is its own.
C12_LookupFailureIsDatabaseError ==
    \A h \in Handlers :
        handler[h].err = "query" =>
            /\ PassedChecks(h)
            /\ handler[h].checked = CheckOrder
            /\ Answered(h, 500, "database_error")
            /\ handler[h].resp.appointment = ZeroAppointment
            /\ \A row \in appointments :
                 \E g \in Handlers \ {h} : handler[g].resp.appointment = row

\* The existence query failed for a date that is in the table, and the
\* request was answered 500, not 409.
C12_Witness ==
    \E h \in Handlers :
        /\ handler[h].err = "query"
        /\ DatePresent(appointments, handler[h].body.visitDate)
        /\ Answered(h, 500, "database_error")

\* C13: no two rows share an id, and a row inserted later has an id greater
\* than the id of every row inserted before it.
C13_IdsUniqueAndIncreasing ==
    [][/\ \A a, b \in appointments' : a.ID = b.ID => a = b
       /\ \A new \in appointments' \ appointments :
            \A old \in appointments : new.ID > old.ID]_vars

\* The table holds two rows, the second with the greater id, which is the
\* value of the counter.
C13_Witness ==
    \E a, b \in appointments :
        /\ a.ID < b.ID
        /\ a.VisitDate # b.VisitDate
        /\ seq = b.ID

\* C14: a request with a method other than POST is answered 405
\* method_not_allowed whatever its body and the server's configuration, and
\* nothing of it is decoded, validated, queried or inserted.
C14_OtherMethodIsNotAllowed ==
    \A h \in Handlers :
        handler[h].pc # "idle" /\ handler[h].method # "POST" =>
            /\ Answered(h, 405, "method_not_allowed")
            /\ ~handler[h].decoded
            /\ handler[h].checked = <<>>
            /\ handler[h].err = ""

\* The reason codes of checks 1 to 5.
LocalReasons == { ReasonCode[k] : k \in 1..5 }

\* C15: a step that answers 400, 405, 409 or 500 leaves the rows and the id
\* counter as they were, and an answer with the code of one of checks 1-5
\* is given by the step that received the request, before any store query.
C15_RejectionsLeaveStoreAlone ==
    [][\A h \in Handlers :
          /\ handler'[h] # handler[h]
          /\ handler'[h].resp.status \in {400, 405, 409, 500}
          => /\ appointments' = appointments
             /\ seq' = seq
             /\ handler'[h].resp.error \in LocalReasons =>
                  /\ handler[h].pc = "idle"
                  /\ handler'[h].pc = "done"
                  /\ "duplicate" \notin { handler'[h].checked[i] :
                                            i \in 1..Len(handler'[h].checked) }
                  /\ ~handler'[h].exists
                  /\ handler'[h].err = ""]_vars

\* One request booked a date and another was answered public_holiday by its
\* first step; the table holds the one row and the counter stands at 1.
C15_Witness ==
    \E g, h \in Handlers :
        /\ Answered(g, 201, "")
        /\ Answered(h, 400, "public_holiday")
        /\ handler[h].checked = SubSeq(CheckOrder, 1, 5)
        /\ appointments = {handler[g].resp.appointment}
        /\ seq = 1

\* Handlers answered 201.
Created == { h \in Handlers : handler[h].resp.status = 201 }

\* C16: a request is answered 201 exactly when its own INSERT committed a
\* row: the body of every 201 is a row of the table built from that request,
\* every row belongs to one 201, no two 201s name the same date, and a
\* request whose store call failed added no row and was not answered 201.
C16_CreatedIffRowCommitted ==
    /\ \A h \in Created :
         /\ Answered(h, 201, "")
         /\ handler[h].err = ""
         /\ handler[h].resp.appointment \in appointments
         /\ BookingOf(handler[h].resp.appointment, handler[h].body)
    /\ \A g, h \in Created :
         handler[g].resp.appointment.VisitDate =
             handler[h].resp.appointment.VisitDate => g = h
    /\ \A row \in appointments :
         \E h \in Created : handler[h].resp.appointment = row
    /\ Cardinality(appointments) = Cardinality(Created)
    /\ \A h \in Handlers :
         handler[h].err # "" =>
            /\ h \notin Created
            /\ handler[h].resp.appointment = ZeroAppointment

\* One INSERT committed and was answered 201, another failed in the store
\* and was answered 500; the table holds the one committed row.
C16_Witness ==
    \E g, h \in Handlers :
        /\ Answered(g, 201, "")
        /\ handler[h].err = "io"
        /\ Answered(h, 500, "database_error")
        /\ appointments = {handler[g].resp.appointment}

\* C17: every step keeps each row of the table, and no row of the table
\* after the step carries the id of an earlier row with other contents.
C17_RowsNeverMutatedOrDeleted ==
    [][\A row \in appointments :
          /\ row \in appointments'
          /\ \A other \in appointments' :
               other.ID = row.ID => other = row]_vars

\* The first booking, with id 1 and the names and date of its request, is
\* still in the table after a second booking was given id 2.
C17_Witness ==
    \E g, h \in Handlers :
        /\ Answered(g, 201, "")
        /\ Answered(h, 201, "")
        /\ handler[g].resp.appointment.ID = 1
        /\ handler[h].resp.appointment.ID = 2
        /\ handler[g].resp.appointment \in appointments
        /\ BookingOf(handler[g].resp.appointment, handler[g].body)

\* C18: every step leaves publicHolidays, yearStr and todayOverride as they
\* were; of the state the requests share only the table and its counter
\* change.
C18_ConfigurationUnchanged ==
    [][/\ publicHolidays' = publicHolidays
       /\ yearStr' = yearStr
       /\ todayOverride' = todayOverride]_vars

\* With holidays loaded and todayOverride set, one request has had its date
\* looked up in the holiday map and been booked, and another was rejected
\* as a holiday.
C18_Witness ==
    \E g, h \in Handlers :
        /\ publicHolidays # {}
        /\ todayOverride # Nil
        /\ Answered(g, 201, "")
        /\ Format(handler[g].visitDate) \notin publicHolidays
        /\ Answered(h, 400, "public_holiday")

\* C19: every invocation that has returned wrote a response, with status
\* 201, 400, 405, 409 or 500, also when yearStr is empty or not an integer.
C19_EveryInvocationAnswers ==
    \A h \in Handlers :
        Done(h) =>
            /\ handler[h].resp.written
            /\ handler[h].resp.status \in {201, 400, 405, 409, 500}

====
